---------------------------- MODULE Spec2Model ----------------------------
(***************************************************************************)
(* A model of the oembed crate: the url scheme matcher, the endpoint       *)
(* lookup and fetch of client.rs and the serde mapping of Response in      *)
(* lib.rs.  Strings are sequences of one-character strings.  Option<T> is  *)
(* a sequence of length 0 (None) or 1 (Some).                              *)
(***************************************************************************)
EXTENDS Integers, Sequences, FiniteSets, TLC

VARIABLES
    providers,            \* Schema.providers
    url,                  \* the url argument of the running call
    pc,                   \* position of the running call
    matched,              \* Option<MatchedEndpoint> found by Schema::fetch
    calls,                \* the calls made on the Http transport, in order
    encoded_url,          \* Endpoint::fetch: encoded_url
    request_url,          \* Endpoint::fetch: request_url
    s,                    \* Endpoint::fetch: the body returned by get
    result,               \* Option<Result<Response>> returned by Schema::fetch
    scheme,               \* url_matches_scheme: the scheme argument
    url_chars,            \* url_matches_scheme: what url_chars still yields
    scheme_chars,         \* url_matches_scheme: what scheme_chars still yields
    current_scheme_char,  \* url_matches_scheme: current_scheme_char
    ret,                  \* url_matches_scheme: Option<bool>, the value returned
    response,             \* the Response that is serialized
    json,                 \* Option of the serialized Response
    parsed                \* Option of the Result of deserializing json

vars == <<providers, url, pc, matched, calls, encoded_url, request_url, s,
          result, scheme, url_chars, scheme_chars, current_scheme_char, ret,
          response, json, parsed>>

fetchVars == <<providers, pc, matched, calls, encoded_url, request_url, s, result>>
matchVars == <<scheme, url_chars, scheme_chars, current_scheme_char, ret>>
serdeVars == <<response, json, parsed>>

(***************************************************************************)
(* Bounds of the model.                                                    *)
(***************************************************************************)
MaxUrlLen == 4
MaxSchemeLen == 3
MaxProviders == 2

None == <<>>
Some(v) == <<v>>

RECURSIVE StringsUpTo(_, _)
StringsUpTo(alphabet, n) ==
    IF n = 0 THEN {<<>>}
    ELSE LET shorter == StringsUpTo(alphabet, n - 1)
         IN shorter \cup {Append(w, c) : w \in shorter, c \in alphabet}

(***************************************************************************)
(* url_matches_scheme (client.rs).                                         *)
(***************************************************************************)
\* Peekable::peek: the next item without consuming it.
Peek(chars) == IF chars = <<>> THEN None ELSE Some(Head(chars))

\* Iterator::next on a Chars iterator: the item and what is left.
NextItem(chars) == IF chars = <<>> THEN None ELSE Some(Head(chars))
Rest(chars) == IF chars = <<>> THEN <<>> ELSE Tail(chars)

\* The state of the loop after the first scheme_chars.next().
MatchStart(u, sch) ==
    [url_chars |-> u,
     scheme_chars |-> Rest(sch),
     current_scheme_char |-> NextItem(sch),
     ret |-> None]

\* A mutation of the loop: a `*` is left after one url character, whatever follows.
MatchIterStarOnce(st) ==
    IF st.url_chars = <<>> THEN [st EXCEPT !.ret = Some(TRUE)]
    ELSE LET url_char == Head(st.url_chars)
             after == Tail(st.url_chars)
             cur == st.current_scheme_char
             advance == [st EXCEPT !.url_chars = after,
                                   !.current_scheme_char = NextItem(st.scheme_chars),
                                   !.scheme_chars = Rest(st.scheme_chars)]
         IN IF cur = Some("*") THEN advance
            ELSE IF cur # None /\ cur[1] = url_char THEN advance
            ELSE [st EXCEPT !.url_chars = after, !.ret = Some(FALSE)]

\* One evaluation of `while let Some(url_char) = url_chars.next()` and, when
\* it yields a character, of the loop body.
MatchIter(st) ==
    IF st.url_chars = <<>> THEN [st EXCEPT !.ret = Some(TRUE)]
    ELSE LET url_char == Head(st.url_chars)
             after == Tail(st.url_chars)
             cur == st.current_scheme_char
             advance == [st EXCEPT !.url_chars = after,
                                   !.current_scheme_char = NextItem(st.scheme_chars),
                                   !.scheme_chars = Rest(st.scheme_chars)]
         IN IF cur = Some("*") /\ Peek(st.scheme_chars) = Peek(after) THEN advance
            ELSE IF cur = Some("*") THEN [st EXCEPT !.url_chars = after]
            ELSE IF cur # None /\ cur[1] = url_char THEN advance
            ELSE [st EXCEPT !.url_chars = after, !.ret = Some(FALSE)]

RECURSIVE MatchRun(_)
MatchRun(st) == IF st.ret # None THEN st ELSE MatchRun(MatchIter(st))

url_matches_scheme(u, sch) == MatchRun(MatchStart(u, sch)).ret[1]

(***************************************************************************)
(* The catalog: Provider, Endpoint (lib.rs) and Schema (client.rs).        *)
(***************************************************************************)
\* Endpoint { url, schemes }: formats and discovery are read by no code.
Endpoint(u, schemes) == [url |-> u, schemes |-> schemes]

\* Provider { name, url, endpoints }.
Provider(name, u, endpoints) == [name |-> name, url |-> u, endpoints |-> endpoints]

\* The endpoints catalogs are built from: no schemes list, one scheme and
\* two schemes.
EndpointPool ==
    {Endpoint(<<"e">>, None),
     Endpoint(<<"g">>, Some(<< <<"a", "*">> >>)),
     Endpoint(<<"h">>, Some(<< <<"a", "b">>, <<"*", "b">> >>))}

ProviderPool ==
    {Provider(<<"p">>, <<"u">>, es) :
        es \in {<<>>} \cup {<<e>> : e \in EndpointPool}
                      \cup {<<e1, e2>> : e1, e2 \in EndpointPool}}

RECURSIVE SeqsUpTo(_, _)
SeqsUpTo(S, n) ==
    IF n = 0 THEN {<<>>}
    ELSE LET shorter == SeqsUpTo(S, n - 1)
         IN shorter \cup {Append(w, x) : w \in shorter, x \in S}

Catalogs == SeqsUpTo(ProviderPool, MaxProviders)

\* The urls Schema::fetch is called with.
FetchUrls == {<<>>, <<"a">>, <<"a", "b">>, <<"b", "b">>, <<"b", "a">>}

\* A mutation of the scan: a scheme that matches is passed over when a later one matches.
FirstSchemeLast(schemes, u, k) ==
    LET hits == {i \in k..Len(schemes) : url_matches_scheme(u, schemes[i])}
    IN IF hits = {} THEN None ELSE Some(CHOOSE i \in hits : \A j \in hits : j <= i)

\* schemes.iter().filter(|s| url_matches_scheme(url, &s)).next(), from index k on.
RECURSIVE FirstScheme(_, _, _)
FirstScheme(schemes, u, k) ==
    IF k > Len(schemes) THEN None
    ELSE IF url_matches_scheme(u, schemes[k]) THEN Some(k)
    ELSE FirstScheme(schemes, u, k + 1)

\* Endpoint::match_url_scheme: the index of the matched scheme.
match_url_scheme(endpoint, u) ==
    IF endpoint.schemes = None THEN None
    ELSE FirstScheme(endpoint.schemes[1], u, 1)

\* `for endpoint in &provider.endpoints`, from index e on, in provider p.
RECURSIVE ScanEndpoints(_, _, _, _)
ScanEndpoints(ps, u, p, e) ==
    IF e > Len(ps[p].endpoints) THEN None
    ELSE LET matched_scheme == match_url_scheme(ps[p].endpoints[e], u)
         IN IF matched_scheme # None
            THEN Some([provider |-> p, endpoint |-> e,
                       matched_scheme |-> matched_scheme[1]])
            ELSE ScanEndpoints(ps, u, p, e + 1)

\* `for provider in &self.providers`, from index p on.
RECURSIVE ScanProviders(_, _, _)
ScanProviders(ps, u, p) ==
    IF p > Len(ps) THEN None
    ELSE LET m == ScanEndpoints(ps, u, p, 1)
         IN IF m # None THEN m ELSE ScanProviders(ps, u, p + 1)

\* Schema::match_endpoint: the references of MatchedEndpoint are indices.
match_endpoint(ps, u) == ScanProviders(ps, u, 1)

(***************************************************************************)
(* Response and ResponseType (lib.rs) and their serde mapping.  A JSON     *)
(* document is a syntax flag and a value for each key, JAbsent when the    *)
(* object has no such key.                                                 *)
(***************************************************************************)
JAbsent == [kind |-> "absent", str |-> <<>>, num |-> 0]
JNull == [kind |-> "null", str |-> <<>>, num |-> 0]
JStr(w) == [kind |-> "string", str |-> w, num |-> 0]
JNum(n) == [kind |-> "number", str |-> <<>>, num |-> n]

Ok(v) == [ok |-> TRUE, value |-> v]
Err(e) == [ok |-> FALSE, error |-> e]

\* The identifiers of the variants of ResponseType.
Variants == {"Photo", "Video", "Rich", "Link"}

VariantIdent(v) ==
    CASE v = "Photo" -> <<"P", "h", "o", "t", "o">>
      [] v = "Video" -> <<"V", "i", "d", "e", "o">>
      [] v = "Rich" -> <<"R", "i", "c", "h">>
      [] v = "Link" -> <<"L", "i", "n", "k">>

\* serde's RenameRule "lowercase".
LowerChar(c) ==
    CASE c = "P" -> "p" [] c = "V" -> "v" [] c = "R" -> "r" [] c = "L" -> "l"
      [] OTHER -> c
RenameLowercase(w) == [i \in 1..Len(w) |-> LowerChar(w[i])]

\* rename_all(deserialize = "lowercase"): the rule applies to deserialization
\* only, serialization writes the identifier.
SerializeVariantName(v) == VariantIdent(v)
DeserializeVariantName(v) == RenameLowercase(VariantIdent(v))

StringKeys == {"title", "author_name", "author_url", "provider_name",
               "provider_url", "cache_age", "thumbnail_url"}
NumberKeys == {"thumbnail_width", "thumbnail_height"}
VariantKeys == {"type", "url", "html", "width", "height"}
Keys == VariantKeys \cup {"version"} \cup StringKeys \cup NumberKeys

\* Serialize for Option<String> and Option<i32>: None is written as null.
SerOptStr(o) == IF o = None THEN JNull ELSE JStr(o[1])
SerOptNum(o) == IF o = None THEN JNull ELSE JNum(o[1])

\* #[derive(Serialize)] of ResponseType, tag = "type", flattened into Response.
SerializeResponseType(rt) ==
    [k \in VariantKeys |->
        CASE k = "type" -> JStr(SerializeVariantName(rt.variant))
          [] k = "url" -> IF rt.variant = "Photo" THEN JStr(rt.url) ELSE JAbsent
          [] k = "html" -> IF rt.variant \in {"Video", "Rich"} THEN JStr(rt.html)
                           ELSE JAbsent
          [] k = "width" -> IF rt.variant = "Link" THEN JAbsent
                            ELSE SerOptNum(rt.width)
          [] k = "height" -> IF rt.variant = "Link" THEN JAbsent
                             ELSE SerOptNum(rt.height)]

\* #[derive(Serialize)] of Response.
Serialize(r) ==
    [syntax_ok |-> TRUE,
     fields |-> [k \in Keys |->
        IF k \in VariantKeys THEN SerializeResponseType(r.response_type)[k]
        ELSE IF k = "version" THEN JStr(r.version)
        ELSE IF k \in StringKeys THEN SerOptStr(r[k])
        ELSE SerOptNum(r[k])]]

\* Deserialize for Option<String> and Option<i32>: a missing key and null are None.
OptOk(j, kind) == j.kind \in {"absent", "null", kind}
DeOptStr(j) == IF j.kind = "string" THEN Some(j.str) ELSE None
DeOptNum(j) == IF j.kind = "number" THEN Some(j.num) ELSE None

\* A mutation of the mapping: the tag is read with the case of its letters ignored.
VariantOfTagAnyCase(j) ==
    IF j.kind # "string" THEN None
    ELSE LET hit == {v \in Variants : DeserializeVariantName(v) = RenameLowercase(j.str)}
         IN IF hit = {} THEN None ELSE Some(CHOOSE v \in hit : TRUE)

\* The variant a `type` tag names, if any.
VariantOfTag(j) ==
    IF j.kind # "string" THEN None
    ELSE LET hit == {v \in Variants : DeserializeVariantName(v) = j.str}
         IN IF hit = {} THEN None ELSE Some(CHOOSE v \in hit : TRUE)

\* #[derive(Deserialize)] of ResponseType from the keys Response does not own.
DeserializeResponseType(f) ==
    LET tag == VariantOfTag(f["type"])
    IN IF f["type"].kind = "absent" THEN Err(<<"missing field", "type">>)
       ELSE IF tag = None THEN Err(<<"unknown variant", "type">>)
       ELSE IF tag[1] = "Link" THEN Ok([variant |-> "Link"])
       ELSE IF ~OptOk(f["width"], "number") THEN Err(<<"invalid type", "width">>)
       ELSE IF ~OptOk(f["height"], "number") THEN Err(<<"invalid type", "height">>)
       ELSE IF tag[1] = "Photo"
       THEN IF f["url"].kind = "absent" THEN Err(<<"missing field", "url">>)
            ELSE IF f["url"].kind # "string" THEN Err(<<"invalid type", "url">>)
            ELSE Ok([variant |-> "Photo", url |-> f["url"].str,
                     width |-> DeOptNum(f["width"]), height |-> DeOptNum(f["height"])])
       ELSE IF f["html"].kind = "absent" THEN Err(<<"missing field", "html">>)
            ELSE IF f["html"].kind # "string" THEN Err(<<"invalid type", "html">>)
            ELSE Ok([variant |-> tag[1], html |-> f["html"].str,
                     width |-> DeOptNum(f["width"]), height |-> DeOptNum(f["height"])])

\* serde_json::from_str::<Response>: #[derive(Deserialize)] of Response.
Deserialize(doc) ==
    LET f == doc.fields
        badStr == {k \in StringKeys : ~OptOk(f[k], "string")}
        badNum == {k \in NumberKeys : ~OptOk(f[k], "number")}
        rt == DeserializeResponseType(f)
    IN IF ~doc.syntax_ok THEN Err(<<"syntax", "">>)
       ELSE IF f["version"].kind \notin {"absent", "string"}
       THEN Err(<<"invalid type", "version">>)
       ELSE IF badStr # {} THEN Err(<<"invalid type", CHOOSE k \in badStr : TRUE>>)
       ELSE IF badNum # {} THEN Err(<<"invalid type", CHOOSE k \in badNum : TRUE>>)
       ELSE IF f["version"].kind = "absent" THEN Err(<<"missing field", "version">>)
       ELSE IF ~rt.ok THEN rt
       ELSE Ok([k \in {"response_type", "version"} \cup StringKeys \cup NumberKeys |->
                  IF k = "response_type" THEN rt.value
                  ELSE IF k = "version" THEN f[k].str
                  ELSE IF k \in StringKeys THEN DeOptStr(f[k])
                  ELSE DeOptNum(f[k])])

\* The Response values that are serialized: each variant, each optional field
\* populated or absent.
OptNums == {None, Some(7)}
OptStrs == {None, Some(<<"x">>)}

ResponseTypes ==
    {[variant |-> "Photo", url |-> <<"x">>, width |-> w, height |-> h] :
        w \in OptNums, h \in OptNums}
    \cup {[variant |-> v, html |-> <<"x">>, width |-> w, height |-> h] :
        v \in {"Video", "Rich"}, w \in OptNums, h \in OptNums}
    \cup {[variant |-> "Link"]}

MkResponse(rt, strs, nums) ==
    [k \in {"response_type", "version"} \cup StringKeys \cup NumberKeys |->
        IF k = "response_type" THEN rt
        ELSE IF k = "version" THEN <<"1", ".", "0">>
        ELSE IF k \in StringKeys THEN strs[k]
        ELSE nums[k]]

Responses ==
    {MkResponse(rt, strs, nums) :
        rt \in ResponseTypes,
        strs \in [StringKeys -> OptStrs],
        nums \in [NumberKeys -> OptNums]}

(***************************************************************************)
(* The Http transport (client.rs), supplied by the caller: each call       *)
(* answers with any of its outcomes.                                       *)
(***************************************************************************)
TransportErrors == {"io", "timeout"}

\* Http::url_encode(s).
UrlEncodeOutcomes(u) == {Ok(u), Ok(<<"%">> \o u)} \cup {Err(e) : e \in TransportErrors}

\* A document with a `type` tag (JAbsent for none) and the fields of every variant.
Doc(tag) ==
    [syntax_ok |-> TRUE,
     fields |-> [k \in Keys |->
        CASE k = "type" -> tag
          [] k \in {"url", "html"} -> JStr(<<"x">>)
          [] k = "version" -> JStr(<<"1", ".", "0">>)
          [] k = "title" -> JStr(<<"t">>)
          [] k = "width" -> JNum(7)
          [] OTHER -> JAbsent]]

Tags ==
    {JAbsent, JNull, JNum(7),
     JStr(<<"p", "h", "o", "t", "o">>), JStr(<<"v", "i", "d", "e", "o">>),
     JStr(<<"r", "i", "c", "h">>), JStr(<<"l", "i", "n", "k">>),
     JStr(<<"P", "h", "o", "t", "o">>), JStr(<<"a", "u", "d", "i", "o">>)}

Bodies ==
    {Doc(tag) : tag \in Tags}
    \cup {[Doc(JStr(<<"p", "h", "o", "t", "o">>)) EXCEPT !.syntax_ok = FALSE],
          [Doc(JStr(<<"p", "h", "o", "t", "o">>)) EXCEPT !.fields["url"] = JAbsent],
          [Doc(JStr(<<"l", "i", "n", "k">>)) EXCEPT !.fields["version"] = JAbsent]}

\* Http::get(url).
GetOutcomes(u) == {Ok(b) : b \in Bodies} \cup {Err(e) : e \in TransportErrors}

(***************************************************************************)
(* Error (lib.rs) and Endpoint::fetch, Schema::fetch (client.rs).          *)
(***************************************************************************)
HttpUrlEncode(e) == [kind |-> "HttpUrlEncode", source |-> e]
ParseError(e) == [kind |-> "ParseError", source |-> e]

\* A mutation of the classification: a failed get is reported as a failed url_encode.
HttpGetAsEncode(e) == [kind |-> "HttpUrlEncode", source |-> e]

HttpGet(e) == [kind |-> "HttpGet", source |-> e]

QueryPrefix ==
    <<"?", "f", "o", "r", "m", "a", "t", "=", "j", "s", "o", "n", "&", "u", "r", "l", "=">>

\* A mutation of the request url: the encoded url is encoded a second time.
RequestUrlTwice(self_url, encoded) == self_url \o QueryPrefix \o <<"%">> \o encoded

\* format!("{}?format=json&url={}", self.url, encoded_url)
RequestUrl(self_url, encoded) == self_url \o QueryPrefix \o encoded

\* A mutation of the call: a failed url_encode is tried again.
AfterUrlEncodeRetry(self, r) ==
    IF r.ok
    THEN [pc |-> "get", encoded_url |-> Some(r.value),
          request_url |-> Some(RequestUrl(self.url, r.value)), result |-> None]
    ELSE [pc |-> "url_encode", encoded_url |-> None, request_url |-> None,
          result |-> None]

\* Endpoint::fetch after http.url_encode(url) answered r: `?` returns the
\* error, or request_url is built.
AfterUrlEncode(self, r) ==
    IF r.ok
    THEN [pc |-> "get", encoded_url |-> Some(r.value),
          request_url |-> Some(RequestUrl(self.url, r.value)), result |-> None]
    ELSE [pc |-> "done", encoded_url |-> None, request_url |-> None,
          result |-> Some(Err(HttpUrlEncode(r.error)))]

\* Endpoint::fetch after http.get(&request_url) answered r: `?` returns the
\* error, or the body is parsed.
AfterGet(r) ==
    IF ~r.ok THEN Err(HttpGet(r.error))
    ELSE LET p == Deserialize(r.value)
         IN IF p.ok THEN p ELSE Err(ParseError(p.error))

\* A mutation of the call: fetch is called on the provider's first endpoint.
FetchTargetFirst(ps, m) == ps[m.provider].endpoints[1]

\* The endpoint Schema::fetch calls fetch on: m.endpoint.
FetchTarget(ps, m) == ps[m.provider].endpoints[m.endpoint]

NoCall == [url |-> <<>>, pc |-> "idle", matched |-> None, calls |-> <<>>,
           encoded_url |-> None, request_url |-> None, s |-> None, result |-> None]
NoMatch == [scheme |-> <<>>, url_chars |-> <<>>, scheme_chars |-> <<>>,
            current_scheme_char |-> None, ret |-> None]
NoSerde == [response |-> None, json |-> None, parsed |-> None]

FetchIdle ==
    /\ pc = NoCall.pc /\ matched = NoCall.matched /\ calls = NoCall.calls
    /\ encoded_url = NoCall.encoded_url /\ request_url = NoCall.request_url
    /\ s = NoCall.s /\ result = NoCall.result
MatchIdle ==
    /\ scheme = NoMatch.scheme /\ url_chars = NoMatch.url_chars
    /\ scheme_chars = NoMatch.scheme_chars
    /\ current_scheme_char = NoMatch.current_scheme_char /\ ret = NoMatch.ret
SerdeIdle ==
    /\ response = NoSerde.response /\ json = NoSerde.json /\ parsed = NoSerde.parsed

\* A Schema with its catalog loaded and no call running.
Init ==
    /\ providers \in Catalogs
    /\ url = NoCall.url
    /\ FetchIdle /\ MatchIdle /\ SerdeIdle

\* Schema::fetch(http, u) up to its first call on the transport.
SchemaFetch(u) ==
    /\ pc = "idle"
    /\ url' = u
    /\ matched' = match_endpoint(providers, u)
    /\ pc' = IF matched' = None THEN "done" ELSE "url_encode"
    /\ result' = None
    /\ UNCHANGED <<providers, calls, encoded_url, request_url, s>>
    /\ UNCHANGED matchVars /\ UNCHANGED serdeVars

\* Endpoint::fetch: http.url_encode(url) and the lines up to http.get.
UrlEncode ==
    /\ pc = "url_encode"
    /\ \E r \in UrlEncodeOutcomes(url) :
         LET next == AfterUrlEncode(FetchTarget(providers, matched[1]), r)
         IN /\ calls' = Append(calls, [method |-> "url_encode", arg |-> url,
                                       outcome |-> r])
            /\ pc' = next.pc
            /\ encoded_url' = next.encoded_url
            /\ request_url' = next.request_url
            /\ result' = next.result
    /\ UNCHANGED <<providers, url, matched, s>>
    /\ UNCHANGED matchVars /\ UNCHANGED serdeVars

\* Endpoint::fetch: http.get(&request_url) and the parse of the body.
Get ==
    /\ pc = "get"
    /\ \E r \in GetOutcomes(request_url[1]) :
         /\ calls' = Append(calls, [method |-> "get", arg |-> request_url[1],
                                    outcome |-> r])
         /\ s' = IF r.ok THEN Some(r.value) ELSE None
         /\ result' = Some(AfterGet(r))
    /\ pc' = "done"
    /\ UNCHANGED <<providers, url, matched, encoded_url, request_url>>
    /\ UNCHANGED matchVars /\ UNCHANGED serdeVars

Next == (\E u \in FetchUrls : SchemaFetch(u)) \/ UrlEncode \/ Get

Spec == Init /\ [][Next]_vars

(***************************************************************************)
(* url_matches_scheme, one loop iteration at a time, on every url and      *)
(* scheme within the bounds.                                               *)
(***************************************************************************)
Alphabet == {"a", "b", "*"}

MatchInit ==
    /\ providers = <<>>
    /\ url \in StringsUpTo(Alphabet, MaxUrlLen)
    /\ scheme \in StringsUpTo(Alphabet, MaxSchemeLen)
    /\ url_chars = MatchStart(url, scheme).url_chars
    /\ scheme_chars = MatchStart(url, scheme).scheme_chars
    /\ current_scheme_char = MatchStart(url, scheme).current_scheme_char
    /\ ret = MatchStart(url, scheme).ret
    /\ FetchIdle /\ SerdeIdle

MatchState ==
    [url_chars |-> url_chars, scheme_chars |-> scheme_chars,
     current_scheme_char |-> current_scheme_char, ret |-> ret]

MatchAssign(st) ==
    /\ url_chars' = st.url_chars
    /\ scheme_chars' = st.scheme_chars
    /\ current_scheme_char' = st.current_scheme_char
    /\ ret' = st.ret
    /\ UNCHANGED <<url, scheme>>
    /\ UNCHANGED fetchVars /\ UNCHANGED serdeVars

\* url_chars.next() yields a character: the loop body runs.
MatchLoop ==
    /\ ret = None /\ url_chars # <<>>
    /\ MatchAssign(MatchIter(MatchState))

\* url_chars.next() yields None: the loop ends and the function returns.
MatchReturn ==
    /\ ret = None /\ url_chars = <<>>
    /\ MatchAssign(MatchIter(MatchState))

MatchNext == MatchLoop \/ MatchReturn

MatchSpec == MatchInit /\ [][MatchNext]_vars

(***************************************************************************)
(* A Response serialized and the output deserialized.                      *)
(***************************************************************************)
SerdeInit ==
    /\ providers = <<>>
    /\ url = NoCall.url
    /\ response \in Responses
    /\ json = None /\ parsed = None
    /\ FetchIdle /\ MatchIdle

DoSerialize ==
    /\ json = None
    /\ json' = Some(Serialize(response))
    /\ UNCHANGED <<response, parsed, url>>
    /\ UNCHANGED fetchVars /\ UNCHANGED matchVars

DoDeserialize ==
    /\ json # None /\ parsed = None
    /\ parsed' = Some(Deserialize(json[1]))
    /\ UNCHANGED <<response, json, url>>
    /\ UNCHANGED fetchVars /\ UNCHANGED matchVars

SerdeNext == DoSerialize \/ DoDeserialize

SerdeSpec == SerdeInit /\ [][SerdeNext]_vars

(***************************************************************************)
(* Properties of url_matches_scheme, checked under MatchSpec.              *)
(***************************************************************************)
HasStar(w) == \E i \in 1..Len(w) : w[i] = "*"
StartsWith(w, prefix) ==
    Len(w) >= Len(prefix) /\ SubSeq(w, 1, Len(prefix)) = prefix

\* The characters of a scheme before its first `*`.
LiteralPrefix(w) ==
    LET stars == {i \in 1..Len(w) : w[i] = "*"}
    IN IF stars = {} THEN w
       ELSE SubSeq(w, 1, (CHOOSE i \in stars : \A j \in stars : i <= j) - 1)

\* A literal followed by a single trailing `*`.
LiteralThenStar(w) ==
    /\ w # <<>> /\ w[Len(w)] = "*"
    /\ ~HasStar(SubSeq(w, 1, Len(w) - 1))

\* C1: for a scheme with no `*`, url_matches_scheme(url, scheme) returns true
\* if and only if url = scheme.
C1_LiteralIffEqual ==
    (ret # None /\ ~HasStar(scheme)) => (ret[1] <=> url = scheme)

\* C6: url_matches_scheme(L + s, L + "*") returns true for every literal L
\* and every s, the empty one included.
C6_TrailingStarMatchesAnySuffix ==
    (/\ ret # None
     /\ LiteralThenStar(scheme)
     /\ StartsWith(url, SubSeq(scheme, 1, Len(scheme) - 1))) => ret[1]

\* The function has returned true on a literal of one character or more
\* followed by `*` and a url with two characters or more after the literal.
C6_Witness ==
    /\ ret = Some(TRUE)
    /\ LiteralThenStar(scheme) /\ Len(scheme) >= 2
    /\ StartsWith(url, SubSeq(scheme, 1, Len(scheme) - 1))
    /\ Len(url) >= Len(scheme) + 1

\* C9: url_matches_scheme returns false when the url is shorter than the
\* literal prefix of the scheme, and a true result implies that the whole url
\* was consumed and that no scheme character is left over.  A `*` left over
\* is not counted here: the claim is checked in its weakest reading.
C9_ExhaustedUrlFails ==
    ret # None =>
        /\ Len(url) < Len(LiteralPrefix(scheme)) => ~ret[1]
        /\ ret[1] => /\ url_chars = <<>>
                     /\ current_scheme_char \in {None, Some("*")}
                     /\ \A i \in 1..Len(scheme_chars) : scheme_chars[i] = "*"

(***************************************************************************)
(* Properties of the lookup and of fetch, checked under Spec.              *)
(***************************************************************************)
\* The (provider, endpoint, scheme) index triples whose scheme matches u.
MatchingTriples(ps, u) ==
    {t \in UNION {UNION {IF ps[p].endpoints[e].schemes = None THEN {}
                         ELSE {<<p, e, k>> :
                                 k \in 1..Len(ps[p].endpoints[e].schemes[1])} :
                         e \in 1..Len(ps[p].endpoints)} :
                  p \in 1..Len(ps)} :
        url_matches_scheme(u, ps[t[1]].endpoints[t[2]].schemes[1][t[3]])}

LexLeq(a, b) ==
    \/ a[1] < b[1]
    \/ a[1] = b[1] /\ a[2] < b[2]
    \/ a[1] = b[1] /\ a[2] = b[2] /\ a[3] <= b[3]

Swap(ps, i, j) ==
    [p \in 1..Len(ps) |-> IF p = i THEN ps[j] ELSE IF p = j THEN ps[i] ELSE ps[p]]

\* C2: match_endpoint returns the triple earliest in (provider, endpoint,
\* scheme) order among those whose scheme matches the url, an endpoint with
\* no schemes list contributing none, and no result exactly when none
\* matches; with the returned provider and another matching provider
\* swapped in the catalog, the other one is returned.
C2_FirstMatchInCatalogOrder ==
    pc # "idle" =>
        LET T == MatchingTriples(providers, url)
        IN /\ matched = None <=> T = {}
           /\ matched # None =>
                LET m == matched[1]
                    t == <<m.provider, m.endpoint, m.matched_scheme>>
                IN /\ t \in T
                   /\ \A o \in T : LexLeq(t, o)
                   /\ \A j \in {o[1] : o \in T} \ {m.provider} :
                        LET swapped == match_endpoint(Swap(providers, m.provider, j), url)
                        IN /\ swapped # None
                           /\ swapped[1].provider = m.provider
                           /\ Swap(providers, m.provider, j)[swapped[1].provider]
                                = providers[j]

\* Two providers match; the one returned has an endpoint with no schemes
\* list before the matched one, and the matched scheme is not the only match.
C2_Witness ==
    /\ pc # "idle" /\ matched # None
    /\ Cardinality({o[1] : o \in MatchingTriples(providers, url)}) = 2
    /\ matched[1].endpoint = 2
    /\ providers[matched[1].provider].endpoints[1].schemes = None
    /\ Cardinality({o \in MatchingTriples(providers, url) :
                      o[1] = matched[1].provider /\ o[2] = matched[1].endpoint}) = 2

\* C3: Schema::fetch returns None if and only if match_endpoint finds no
\* endpoint; otherwise it returns Some of the outcome, success or error, of
\* Endpoint::fetch on the endpoint match_endpoint chose, called with the same url.
C3_NoneIffNoMatch ==
    pc = "done" =>
        LET m == match_endpoint(providers, url)
        IN /\ result = None <=> m = None
           /\ m = None => calls = <<>>
           /\ m # None =>
                LET chosen == providers[m[1].provider].endpoints[m[1].endpoint]
                IN /\ calls # <<>> /\ calls[1].arg = url
                   /\ Len(calls) = 2 => StartsWith(calls[2].arg, chosen.url)
                   /\ result[1].ok <=> (Len(calls) = 2 /\ calls[2].outcome.ok
                                        /\ Deserialize(calls[2].outcome.value).ok)

\* A fetch returned an error from the second endpoint of a provider whose
\* first endpoint has another url.
C3_Witness ==
    /\ pc = "done" /\ matched # None /\ result # None /\ ~result[1].ok
    /\ matched[1].endpoint = 2 /\ Len(calls) = 2
    /\ providers[matched[1].provider].endpoints[1].url
         # providers[matched[1].provider].endpoints[2].url

\* C4: Endpoint::fetch returns Error::HttpUrlEncode exactly when url_encode
\* fails, Error::HttpGet exactly when url_encode succeeds and get fails,
\* Error::ParseError exactly when both succeed and the body does not parse,
\* and a Response otherwise; the wrapped error is the one of the failing step.
C4_ErrorByFailingStep ==
    (pc = "done" /\ matched # None) =>
        LET r == result[1]
            enc == calls[1].outcome
            got == calls[2].outcome
            body == Deserialize(got.value)
        IN /\ (~r.ok /\ r.error.kind = "HttpUrlEncode") <=> ~enc.ok
           /\ ~enc.ok => r.error.source = enc.error /\ Len(calls) = 1
           /\ (~r.ok /\ r.error.kind = "HttpGet") <=> (enc.ok /\ ~got.ok)
           /\ (enc.ok /\ ~got.ok) => r.error.source = got.error
           /\ (~r.ok /\ r.error.kind = "ParseError")
                <=> (enc.ok /\ got.ok /\ ~body.ok)
           /\ (enc.ok /\ got.ok /\ ~body.ok) => r.error.source = body.error
           /\ r.ok <=> (enc.ok /\ got.ok /\ body.ok)
           /\ r.ok => r.value = body.value

\* A fetch returned Error::HttpGet wrapping the error of the transport's get.
C4_Witness ==
    /\ pc = "done" /\ matched # None /\ Len(calls) = 2
    /\ ~calls[2].outcome.ok
    /\ result = Some(Err([kind |-> "HttpGet", source |-> "timeout"]))

LowerCaseTags ==
    {<<"p", "h", "o", "t", "o">>, <<"v", "i", "d", "e", "o">>,
     <<"r", "i", "c", "h">>, <<"l", "i", "n", "k">>}

\* C7: a body whose `type` is absent, or is not exactly one of the lower-case
\* strings photo, video, rich, link, does not parse, and Endpoint::fetch
\* returns Error::ParseError.
C7_UnknownTypeFailsToParse ==
    (/\ pc = "done" /\ s # None
     /\ \/ s[1].fields["type"].kind # "string"
        \/ s[1].fields["type"].str \notin LowerCaseTags)
    => /\ ~Deserialize(s[1]).ok
       /\ ~result[1].ok /\ result[1].error.kind = "ParseError"

\* A fetch whose body has the type `Photo` returned Error::ParseError.
C7_Witness ==
    /\ pc = "done" /\ s # None
    /\ s[1].fields["type"] = JStr(<<"P", "h", "o", "t", "o">>)
    /\ result # None /\ ~result[1].ok /\ result[1].error.kind = "ParseError"

\* C8: when url_encode succeeds with E, the argument of get is
\* endpoint.url + "?format=json&url=" + E, E being the result of url_encode
\* applied once to the url argument of fetch.
C8_RequestUrl ==
    Len(calls) = 2 =>
        LET chosen == providers[matched[1].provider].endpoints[matched[1].endpoint]
        IN /\ calls[1].method = "url_encode" /\ calls[1].arg = url
           /\ calls[1].outcome.ok
           /\ calls[2].method = "get"
           /\ calls[2].arg =
                chosen.url
                \o <<"?", "f", "o", "r", "m", "a", "t", "=", "j", "s", "o", "n",
                     "&", "u", "r", "l", "=">>
                \o calls[1].outcome.value

\* get was called after url_encode answered a string other than the url.
C8_Witness ==
    /\ Len(calls) = 2
    /\ url # <<>>
    /\ calls[1].outcome.ok /\ calls[1].outcome.value # url

\* C10: the calls Schema::fetch makes on the transport are none (no endpoint
\* matches), [url_encode] (url_encode fails) or [url_encode, get]; no method
\* is called twice.
C10_TransportCalls ==
    LET methods == [i \in 1..Len(calls) |-> calls[i].method]
    IN /\ methods \in {<<>>, <<"url_encode">>, <<"url_encode", "get">>}
       /\ pc = "done" =>
            /\ methods = <<>> <=> matched = None
            /\ methods = <<"url_encode">> <=> (matched # None /\ ~calls[1].outcome.ok)
            /\ methods = <<"url_encode", "get">>
                 <=> (matched # None /\ calls[1].outcome.ok)

\* A fetch returned after a failed url_encode, having made no other call.
C10_Witness ==
    /\ pc = "done" /\ Len(calls) = 1
    /\ ~calls[1].outcome.ok
    /\ result # None /\ result[1].error.kind = "HttpUrlEncode"

(***************************************************************************)
(* The round trip of a Response, checked under SerdeSpec.                  *)
(***************************************************************************)
\* C5: serializing a Response and deserializing the output succeeds and
\* yields a Response equal to the original.
C5_RoundTrip ==
    parsed # None => parsed[1] = Ok(response)

=============================================================================
